---- MODULE Spec2Model ----
(***************************************************************************)
(* The blog application of src/main.py as a state machine.                 *)
(*                                                                         *)
(* State: the three tables (users, blog_posts, comments) in insertion      *)
(* order, the Flask-Login identity kept in each client's session cookie,   *)
(* the request being answered and its response (until the response is      *)
(* sent), and (for the interleaved specification only) the transaction     *)
(* each client has built but not yet committed.                            *)
(*                                                                         *)
(* Spec     : one request at a time, each handler run to completion.       *)
(* ConcSpec : the mutating handlers split at db.session.commit(), so that  *)
(*            the reads of one request interleave with the commits of      *)
(*            another.                                                     *)
(***************************************************************************)
EXTENDS Integers, Sequences, FiniteSets, TLC

VARIABLES users, posts, comments, session, request, response, inflight

vars == <<users, posts, comments, session, request, response, inflight>>
db == <<users, posts, comments>>

----------------------------------------------------------------------------
(* Bounds of the model                                                     *)

Sessions == {"c1", "c2"}
Emails == {"a@x.com", "b@x.com"}
Passwords == {"pw", "pwX"}
ConcPassword == "pw"
Names == {"n"}
Salts == {"salt1"}
Titles == {"Hello", "World"}
Subtitles == {"sub"}
Bodies == {"body"}
ImgUrls == {"img"}
Dates == {"November 03, 2026"}
Texts == {"nice post"}

\* the largest primary key the blog_posts and comments tables hand out
MaxPostId == 2
MaxComments == 1

\* the post ids a request names
PostIds == 1..MaxPostId

----------------------------------------------------------------------------
(* Values                                                                  *)

\* a nullable integer column holding no value
NULL == 0
\* the session cookie carries no user id
Anonymous == 0
\* the id the admin_only decorator compares with
AdminId == 1

Methods == {"GET", "POST"}

\* werkzeug's url map: the methods each rule accepts
allowed_methods(route) ==
    CASE route = "get_all_posts" -> {"GET"}
      [] route = "register"      -> {"GET", "POST"}
      [] route = "login"         -> {"GET", "POST"}
      [] route = "logout"        -> {"GET"}
      [] route = "show_post"     -> {"GET", "POST"}
      [] route = "add_new_post"  -> {"GET", "POST"}
      [] route = "edit_post"     -> {"GET"}
      [] route = "delete_post"   -> {"GET"}

\* werkzeug.security: "method$salt$digest"; the digest is a function of the
\* salt and the password, taken to be collision free
generate_password_hash(password, salt) ==
    [method |-> "pbkdf2:sha256", salt |-> salt, digest |-> <<salt, password>>]

\* a verification that accepts every password
check_password_hash_any(pwhash, password) == TRUE

check_password_hash(pwhash, password) ==
    pwhash.digest = generate_password_hash(password, pwhash.salt).digest

\* FlaskForm.validate_on_submit: a submitting method and a form that validates
validate_on_submit(req) == req.method = "POST" /\ req.valid

BlankRequest(route, method, s) ==
    [route |-> route, method |-> method, sid |-> s, post_id |-> 0,
     valid |-> FALSE, email |-> "", password |-> "", name |-> "",
     title |-> "", subtitle |-> "", body |-> "", img_url |-> "", text |-> ""]

\* the response: what the handler returned (or the error it died of) and the
\* message it flashed or the exception raised
Response(status, detail) == [status |-> status, detail |-> detail]

NoTransaction == [kind |-> "none"]

----------------------------------------------------------------------------
(* Queries                                                                 *)

RECURSIVE MaxId(_)
MaxId(rows) ==
    IF rows = <<>> THEN 0
    ELSE LET m == MaxId(Tail(rows))
         IN IF Head(rows).id > m THEN Head(rows).id ELSE m

\* INTEGER PRIMARY KEY: the largest id in the table plus one
NextId(rows) == MaxId(rows) + 1

\* Query.get(id): the index of the row with that primary key, 0 for None
QueryGet(rows, id) ==
    IF \E i \in 1..Len(rows) : rows[i].id = id
    THEN CHOOSE i \in 1..Len(rows) : rows[i].id = id
    ELSE 0

\* a lookup that finds nobody
filter_by_email_none(email) == 0

\* User.query.filter_by(email=...).first(): index of the first match, 0 for None
filter_by_email(email) ==
    LET hits == {i \in 1..Len(users) : users[i].email = email}
    IN IF hits = {} THEN 0 ELSE CHOOSE i \in hits : \A j \in hits : i <= j

\* the user_loader callback: the row of the id in the cookie, 0 for None
load_user(user_id) == QueryGet(users, user_id)

is_authenticated(s) == session[s] # Anonymous /\ load_user(session[s]) # 0

\* a decorator that lets every logged-in user through
admin_only_any_user(s) == is_authenticated(s)

\* the admin_only decorator lets the request through
admin_only(s) == is_authenticated(s) /\ users[load_user(session[s])].id = AdminId

\* a column without the constraint
UniqueEmail_off(rows) == TRUE

\* unique=True on users.email
UniqueEmail(rows) ==
    \A i, j \in 1..Len(rows) : rows[i].email = rows[j].email => i = j

\* a column without the constraint
UniqueTitle_off(rows) == TRUE

\* unique=True on blog_posts.title
UniqueTitle(rows) ==
    \A i, j \in 1..Len(rows) : rows[i].title = rows[j].title => i = j

RemoveAt(rows, k) ==
    [i \in 1..(Len(rows) - 1) |-> IF i < k THEN rows[i] ELSE rows[i + 1]]

\* BlogPost.comments has no delete cascade: the unit of work sets the
\* foreign key of every child of the deleted post to NULL
NullifyChildren(rows, post_id) ==
    [i \in 1..Len(rows) |->
        IF rows[i].parent_post_id = post_id
        THEN [rows[i] EXCEPT !.parent_post_id = NULL]
        ELSE rows[i]]

----------------------------------------------------------------------------
Init ==
    /\ users = <<>>
    /\ posts = <<>>
    /\ comments = <<>>
    /\ session = [s \in Sessions |-> Anonymous]
    /\ request = [route |-> "none", method |-> "GET", sid |-> "c1",
                  post_id |-> 0, valid |-> FALSE, email |-> "", password |-> "",
                  name |-> "", title |-> "", subtitle |-> "", body |-> "",
                  img_url |-> "", text |-> ""]
    /\ response = [status |-> "none", detail |-> ""]
    /\ inflight = [s \in Sessions |-> NoTransaction]


----------------------------------------------------------------------------
(* Transactions: what a handler has added to db.session when it calls      *)
(* db.session.commit(), and what the commit does to the tables             *)

InsertUser(req, salt) ==
    [kind |-> "insert_user", req |-> req,
     row |-> [email |-> req.email,
              password |-> generate_password_hash(req.password, salt),
              name |-> req.name]]

InsertPost(req, author_id, today) ==
    [kind |-> "insert_post", req |-> req,
     row |-> [author_id |-> author_id, title |-> req.title,
              subtitle |-> req.subtitle, date |-> today,
              body |-> req.body, img_url |-> req.img_url]]

\* Comment(parent_post_id=post_id, parent_post=requested_post): at flush the
\* many-to-one relationship writes the foreign key, the id of the post
\* loaded, NULL when the lookup gave None
FlushParent(post_id, requested_post) ==
    IF requested_post = 0 THEN NULL ELSE posts[requested_post].id

InsertComment(req, author_id, requested_post) ==
    [kind |-> "insert_comment", req |-> req,
     row |-> [text |-> req.text, comment_author_id |-> author_id,
              parent_post_id |-> FlushParent(req.post_id, requested_post)]]

DeletePost(req, post_id) ==
    [kind |-> "delete_post", req |-> req, post_id |-> post_id]

\* the fields edit_post assigns from the form. The form of this repository
\* (forms.py) is not among the sources; its author field is taken to leave
\* the author as it is.
UpdatePost(req, post_id) ==
    [kind |-> "update_post", req |-> req, post_id |-> post_id]

Committed(u, p, c, new_id) ==
    [ok |-> TRUE, error |-> "", users |-> u, posts |-> p, comments |-> c,
     new_id |-> new_id]

RolledBack(error) ==
    [ok |-> FALSE, error |-> error, users |-> users, posts |-> posts,
     comments |-> comments, new_id |-> 0]

\* the foreign keys of a comment row resolve (or are NULL)
ForeignKeysHold(row) ==
    /\ row.parent_post_id = NULL \/ QueryGet(posts, row.parent_post_id) # 0
    /\ row.comment_author_id = NULL \/ QueryGet(users, row.comment_author_id) # 0

\* db.session.commit(): the whole transaction or, when a constraint of the
\* schema fails, none of it. fk: the database enforces foreign keys (SQLite
\* does not unless asked to); only a comment's insert can depend on it, no
\* user is ever deleted.
Commit(txn, fk) ==
    CASE txn.kind = "insert_user" ->
           LET new == Append(users, [id |-> NextId(users)] @@ txn.row)
           IN IF UniqueEmail(new)
              THEN Committed(new, posts, comments, NextId(users))
              ELSE RolledBack("IntegrityError")
      [] txn.kind = "insert_post" ->
           LET new == Append(posts, [id |-> NextId(posts)] @@ txn.row)
           IN IF UniqueTitle(new)
              THEN Committed(users, new, comments, NextId(posts))
              ELSE RolledBack("IntegrityError")
      [] txn.kind = "insert_comment" ->
           LET new == Append(comments, [id |-> NextId(comments)] @@ txn.row)
           IN IF fk /\ ~ForeignKeysHold(txn.row)
              THEN RolledBack("IntegrityError")
              ELSE Committed(users, posts, new, NextId(comments))
      [] txn.kind = "update_post" ->
           LET k == QueryGet(posts, txn.post_id)
               new == [posts EXCEPT ![k] =
                         [@ EXCEPT !.title = txn.req.title,
                                   !.subtitle = txn.req.subtitle,
                                   !.img_url = txn.req.img_url,
                                   !.body = txn.req.body]]
           IN IF k = 0 THEN RolledBack("StaleDataError")
              ELSE IF UniqueTitle(new)
              THEN Committed(users, new, comments, posts[k].id)
              ELSE RolledBack("IntegrityError")
      [] txn.kind = "delete_post" ->
           LET k == QueryGet(posts, txn.post_id)
           IN IF k = 0
              THEN RolledBack("StaleDataError")
              ELSE Committed(users, RemoveAt(posts, k),
                             NullifyChildren(comments, txn.post_id), 0)

\* The request handled and the response it got are recorded in the
\* one-request-at-a-time specification only (conc = FALSE).
Record(req, status, detail, conc) ==
    IF conc
    THEN UNCHANGED <<request, response>>
    ELSE request' = req /\ response' = Response(status, detail)

\* what the handler does once its commit has returned or raised
AfterCommit(txn, r, conc) ==
    LET req == txn.req
        s == req.sid
    IN /\ users' = r.users
       /\ posts' = r.posts
       /\ comments' = r.comments
       /\ IF ~r.ok
          THEN /\ Record(req, "500", r.error, conc)
               /\ session' = session
          ELSE CASE txn.kind = "insert_user" ->
                      \* login_user(new_user)
                      /\ session' = [session EXCEPT ![s] = r.new_id]
                      /\ Record(req, "redirect:get_all_posts", "", conc)
                 [] txn.kind = "insert_post" ->
                      /\ session' = session
                      /\ Record(req, "redirect:get_all_posts", "", conc)
                 [] txn.kind = "insert_comment" ->
                      /\ session' = session
                      /\ Record(req, "render:post.html", "", conc)
                 [] txn.kind = "update_post" ->
                      /\ session' = session
                      /\ Record(req, "redirect:show_post", "", conc)
                 [] txn.kind = "delete_post" ->
                      /\ session' = session
                      /\ Record(req, "redirect:get_all_posts", "", conc)

----------------------------------------------------------------------------
(* Requests                                                                *)

\* The requests of the application's interface: GET / ; GET, POST /register ;
\* GET, POST /login ; GET /logout ; GET, POST /post/<id> ; GET, POST /new-post ;
\* GET, POST /edit-post/<id> ; GET /delete/<id>
RegisterRequests ==
    {BlankRequest("register", m, s) : m \in Methods, s \in Sessions}
    \cup {[BlankRequest("register", "POST", s) EXCEPT
              !.valid = TRUE, !.email = e, !.password = p, !.name = n] :
          s \in Sessions, e \in Emails, p \in Passwords, n \in Names}

LoginRequests ==
    {BlankRequest("login", m, s) : m \in Methods, s \in Sessions}
    \cup {[BlankRequest("login", "POST", s) EXCEPT
              !.valid = TRUE, !.email = e, !.password = p] :
          s \in Sessions, e \in Emails, p \in Passwords}

LogoutRequests ==
    {BlankRequest("logout", "GET", s) : s \in Sessions}

IndexRequests ==
    {BlankRequest("get_all_posts", "GET", s) : s \in Sessions}

ShowPostRequests ==
    {[BlankRequest("show_post", m, s) EXCEPT !.post_id = id] :
        m \in Methods, s \in Sessions, id \in PostIds}
    \cup {[BlankRequest("show_post", "POST", s) EXCEPT
              !.post_id = id, !.valid = TRUE, !.text = t] :
          s \in Sessions, id \in PostIds, t \in Texts}

PostForms(route, ids) ==
    {[BlankRequest(route, m, s) EXCEPT !.post_id = id] :
        m \in Methods, s \in Sessions, id \in ids}
    \cup {[BlankRequest(route, "POST", s) EXCEPT
              !.post_id = id, !.valid = TRUE, !.title = t, !.subtitle = st,
              !.body = b, !.img_url = u] :
          s \in Sessions, id \in ids, t \in Titles, st \in Subtitles,
          b \in Bodies, u \in ImgUrls}

NewPostRequests == PostForms("add_new_post", {0})

EditPostRequests == PostForms("edit_post", PostIds)

DeleteRequests ==
    {[BlankRequest("delete_post", "GET", s) EXCEPT !.post_id = id] :
        s \in Sessions, id \in PostIds}

NoRequest == BlankRequest("none", "GET", "c1")
NoResponse == Response("none", "")

\* the server is not in the middle of a recorded request, and the client of
\* the request has no other request under way
Idle(req) == request = NoRequest /\ inflight[req.sid] = NoTransaction

\* the database and the cookies are as they were
Untouched == UNCHANGED <<users, posts, comments, session>>

Respond(req, status, detail, conc) ==
    /\ Record(req, status, detail, conc)
    /\ inflight' = inflight
    /\ Untouched

\* routing refuses a method the rule does not list, before any view runs
MethodNotAllowed(req, conc) == Respond(req, "405", "", conc)

\* db.session.commit() of the transaction the handler built. conc: the
\* handler is suspended at the commit, which another request may overtake.
Submit(txn, fk, conc) ==
    IF conc
    THEN /\ inflight' = [inflight EXCEPT ![txn.req.sid] = txn]
         /\ UNCHANGED <<users, posts, comments, session, request, response>>
    ELSE /\ inflight' = inflight
         /\ AfterCommit(txn, Commit(txn, fk), conc)

Pending(kind) == Cardinality({s \in Sessions : inflight[s].kind = kind})

current_user_id(s) == users[load_user(session[s])].id

----------------------------------------------------------------------------
(* The views                                                               *)

get_all_posts_view(req, conc) ==
    IF req.method \notin allowed_methods(req.route) THEN MethodNotAllowed(req, conc)
    ELSE Respond(req, "render:index.html", "", conc)

register_view(req, salt, fk, conc) ==
    IF req.method \notin allowed_methods(req.route) THEN MethodNotAllowed(req, conc)
    ELSE IF ~validate_on_submit(req)
    THEN Respond(req, "render:register.html", "", conc)
    ELSE IF filter_by_email(req.email) # 0
    THEN Respond(req, "redirect:login", "already signed up", conc)
    ELSE Submit(InsertUser(req, salt), fk, conc)

login_view(req, conc) ==
    IF req.method \notin allowed_methods(req.route) THEN MethodNotAllowed(req, conc)
    ELSE IF ~validate_on_submit(req)
    THEN Respond(req, "render:login.html", "", conc)
    ELSE LET found_user == filter_by_email(req.email)
         IN IF found_user = 0
            THEN Respond(req, "render:login.html", "email does not exist", conc)
            ELSE IF ~check_password_hash(users[found_user].password, req.password)
            THEN Respond(req, "render:login.html", "incorrect password", conc)
            ELSE \* login_user(found_user)
                 /\ session' = [session EXCEPT ![req.sid] = users[found_user].id]
                 /\ Record(req, "redirect:get_all_posts", "", conc)
                 /\ UNCHANGED <<users, posts, comments, inflight>>

logout_view(req, conc) ==
    IF req.method \notin allowed_methods(req.route) THEN MethodNotAllowed(req, conc)
    ELSE \* logout_user()
         /\ session' = [session EXCEPT ![req.sid] = Anonymous]
         /\ Record(req, "redirect:get_all_posts", "", conc)
         /\ UNCHANGED <<users, posts, comments, inflight>>

\* a view that stores the comment without asking who is logged in
show_post_view_unchecked(req, fk, conc) ==
    IF req.method \notin allowed_methods(req.route) THEN MethodNotAllowed(req, conc)
    ELSE LET requested_post == QueryGet(posts, req.post_id)
         IN IF ~validate_on_submit(req)
            THEN Respond(req, "render:post.html", "", conc)
            ELSE /\ Len(comments) + Pending("insert_comment") < MaxComments
                 /\ Submit(InsertComment(req, session[req.sid], requested_post),
                           fk, conc)

show_post_view(req, fk, conc) ==
    IF req.method \notin allowed_methods(req.route) THEN MethodNotAllowed(req, conc)
    ELSE LET requested_post == QueryGet(posts, req.post_id)
         IN IF ~validate_on_submit(req)
            THEN Respond(req, "render:post.html", "", conc)
            ELSE IF ~is_authenticated(req.sid)
            THEN Respond(req, "redirect:login", "log in to comment", conc)
            ELSE /\ Len(comments) + Pending("insert_comment") < MaxComments
                 /\ Submit(InsertComment(req, current_user_id(req.sid),
                                         requested_post), fk, conc)

add_new_post_view(req, today, fk, conc) ==
    IF req.method \notin allowed_methods(req.route) THEN MethodNotAllowed(req, conc)
    ELSE IF ~admin_only(req.sid) THEN Respond(req, "403", "", conc)
    ELSE IF ~validate_on_submit(req)
    THEN Respond(req, "render:make-post.html", "", conc)
    ELSE /\ NextId(posts) + Pending("insert_post") <= MaxPostId
         /\ Submit(InsertPost(req, current_user_id(req.sid), today), fk, conc)

edit_post_view(req, fk, conc) ==
    IF req.method \notin allowed_methods(req.route) THEN MethodNotAllowed(req, conc)
    ELSE IF ~admin_only(req.sid) THEN Respond(req, "403", "", conc)
    ELSE LET post == QueryGet(posts, req.post_id)
         IN IF post = 0
            THEN \* post.title of None
                 Respond(req, "500", "AttributeError", conc)
            ELSE IF ~validate_on_submit(req)
            THEN Respond(req, "render:make-post.html", "", conc)
            ELSE Submit(UpdatePost(req, posts[post].id), fk, conc)

delete_post_view(req, fk, conc) ==
    IF req.method \notin allowed_methods(req.route) THEN MethodNotAllowed(req, conc)
    ELSE IF ~admin_only(req.sid) THEN Respond(req, "403", "", conc)
    ELSE LET post_to_delete == QueryGet(posts, req.post_id)
         IN IF post_to_delete = 0
            THEN \* db.session.delete(None)
                 Respond(req, "500", "UnmappedInstanceError", conc)
            ELSE Submit(DeletePost(req, posts[post_to_delete].id), fk, conc)

----------------------------------------------------------------------------
(* One request at a time                                                   *)

get_all_posts ==
    \E req \in IndexRequests : Idle(req) /\ get_all_posts_view(req, FALSE)

register ==
    \E req \in RegisterRequests, salt \in Salts :
        Idle(req) /\ register_view(req, salt, TRUE, FALSE)

login ==
    \E req \in LoginRequests : Idle(req) /\ login_view(req, FALSE)

logout ==
    \E req \in LogoutRequests : Idle(req) /\ logout_view(req, FALSE)

show_post ==
    \E req \in ShowPostRequests, fk \in BOOLEAN :
        Idle(req) /\ show_post_view(req, fk, FALSE)

add_new_post ==
    \E req \in NewPostRequests, today \in Dates :
        Idle(req) /\ add_new_post_view(req, today, TRUE, FALSE)

edit_post ==
    \E req \in EditPostRequests :
        Idle(req) /\ edit_post_view(req, TRUE, FALSE)

delete_post ==
    \E req \in DeleteRequests :
        Idle(req) /\ delete_post_view(req, TRUE, FALSE)

\* the response goes out and the request is over: the next one can come in
send_response ==
    /\ request # NoRequest
    /\ request' = NoRequest
    /\ response' = NoResponse
    /\ UNCHANGED <<users, posts, comments, session, inflight>>

Next ==
    \/ send_response
    \/ get_all_posts
    \/ register
    \/ login
    \/ logout
    \/ show_post
    \/ add_new_post
    \/ edit_post
    \/ delete_post

Spec == Init /\ [][Next]_vars

----------------------------------------------------------------------------
(* Requests handled concurrently: a handler that commits is suspended at   *)
(* its db.session.commit() and resumed by commit; a client has one request *)
(* under way at a time                                                     *)

\* the requests among rs that submit a form that validates: the ones that
\* can get as far as a commit or a change of the cookie. Which password a
\* user has plays no part in the interleavings: one is enough here.
Submissions(rs) ==
    {req \in rs : validate_on_submit(req) /\ req.password \in {"", ConcPassword}}

register_begin ==
    \E req \in Submissions(RegisterRequests), salt \in Salts :
        Idle(req) /\ register_view(req, salt, TRUE, TRUE)

login_conc ==
    \E req \in Submissions(LoginRequests) : Idle(req) /\ login_view(req, TRUE)

logout_conc ==
    \E req \in LogoutRequests : Idle(req) /\ logout_view(req, TRUE)

show_post_begin ==
    \E req \in Submissions(ShowPostRequests) :
        Idle(req) /\ show_post_view(req, TRUE, TRUE)

add_new_post_begin ==
    \E req \in Submissions(NewPostRequests), today \in Dates :
        Idle(req) /\ add_new_post_view(req, today, TRUE, TRUE)

edit_post_conc ==
    \E req \in Submissions(EditPostRequests) :
        Idle(req) /\ edit_post_view(req, TRUE, TRUE)

delete_post_begin ==
    \E req \in DeleteRequests :
        Idle(req) /\ delete_post_view(req, TRUE, TRUE)

commit ==
    \E s \in Sessions, fk \in BOOLEAN :
        /\ inflight[s] # NoTransaction
        /\ inflight' = [inflight EXCEPT ![s] = NoTransaction]
        /\ AfterCommit(inflight[s], Commit(inflight[s], fk), TRUE)

ConcNext ==
    \/ register_begin
    \/ login_conc
    \/ logout_conc
    \/ show_post_begin
    \/ add_new_post_begin
    \/ edit_post_conc
    \/ delete_post_begin
    \/ commit

ConcSpec == Init /\ [][ConcNext]_vars

----------------------------------------------------------------------------
(* The outcomes the specification names, as responses                      *)

Forbidden(resp) == resp.status = "403"
NotFound(resp) == resp.status = "404"
AlreadyExists(resp) == resp = Response("redirect:login", "already signed up")
Unauthenticated(resp) == resp = Response("redirect:login", "log in to comment")
\* the schema's unique constraint refusing the insert
DuplicateTitle(resp) == resp = Response("500", "IntegrityError")
Succeeded(resp) == resp.status \in {"redirect:get_all_posts", "redirect:show_post"}

AdminRoutes == {"add_new_post", "edit_post", "delete_post"}

\* the identity of client s is the user with id 1
IsAdminIdentity(s) ==
    /\ session[s] = 1
    /\ \E i \in 1..Len(users) : users[i].id = 1

EmailTaken(email) == \E i \in 1..Len(users) : users[i].email = email
TitleTaken(title) == \E i \in 1..Len(posts) : posts[i].title = title
PostExists(id) == \E i \in 1..Len(posts) : posts[i].id = id
UserExists(id) == \E i \in 1..Len(users) : users[i].id = id

\* the step handled a form submission that validated
Submitted(route) ==
    request'.route = route /\ request'.method = "POST" /\ request'.valid

----------------------------------------------------------------------------
(* C1 *)

C1_Step ==
    /\ (request'.route \in AdminRoutes /\ ~IsAdminIdentity(request'.sid))
          => (Forbidden(response') /\ posts' = posts)
    /\ posts' # posts => IsAdminIdentity(request'.sid)

\* C1: every request to /new-post, /edit-post/<id> or /delete/<id> by a
\* client that is anonymous or a user other than user 1 is answered 403 and
\* leaves the posts as they were; only user 1 ever changes the posts.
C1_OnlyAdminChangesPosts == [][C1_Step]_vars

\* The part of C1 about the posts alone: a step that changes the posts is a
\* request of user 1, and a request of anybody else is refused (403, or 405
\* by the routing) with the posts as they were.
C1_PostsFrame ==
    [][/\ posts' # posts => IsAdminIdentity(request'.sid)
       /\ (request'.route \in AdminRoutes /\ ~IsAdminIdentity(request'.sid))
             => (response'.status \in {"403", "405"} /\ posts' = posts)]_vars

----------------------------------------------------------------------------
(* C2 *)

NoSharedEmail(rows) ==
    \A i, j \in 1..Len(rows) : i # j => rows[i].email # rows[j].email

C2_Step ==
    /\ Len(users') >= Len(users) /\ SubSeq(users', 1, Len(users)) = users
    /\ NoSharedEmail(users')
    /\ Submitted("register") =>
          IF EmailTaken(request'.email)
          THEN /\ AlreadyExists(response')
               /\ users' = users
               /\ session' = session
          ELSE /\ Succeeded(response')
               /\ Len(users') = Len(users) + 1
               /\ users'[Len(users')].email = request'.email

\* C2: a register with an email no user row has succeeds and adds exactly one
\* row, with that email; a register with an email some row has is answered
\* AlreadyExists (redirect to login) and adds no row and leaves the identity
\* of the client as it was; no row is ever removed or changed, and no two
\* rows share an email.
C2_RegisterOncePerEmail == [][C2_Step]_vars

\* a second register with an email that is taken has been turned away
C2_Witness ==
    /\ request.route = "register"
    /\ AlreadyExists(response)
    /\ EmailTaken(request.email)
    /\ Len(users) = 2

----------------------------------------------------------------------------
(* C3 *)

\* the submitted credentials are those of row i
Verifies(i, email, password) ==
    /\ users[i].email = email
    /\ users[i].password = generate_password_hash(password, users[i].password.salt)

C3_Step ==
    LET s == request'.sid
        authenticated == \E i \in 1..Len(users) :
                            Verifies(i, request'.email, request'.password)
    IN /\ \A t \in Sessions \ {s} : session'[t] = session[t]
       /\ Submitted("login") =>
             /\ Succeeded(response') <=> authenticated
             /\ authenticated =>
                   \E i \in 1..Len(users) :
                       /\ Verifies(i, request'.email, request'.password)
                       /\ session'[s] = users[i].id
             /\ ~authenticated => session' = session
       /\ request'.route = "logout" => session'[s] = Anonymous
       /\ session'[s] # session[s] =>
             \/ request'.route = "logout" /\ session'[s] = Anonymous
             \/ /\ Submitted("login") \/ Submitted("register")
                /\ Succeeded(response')
                /\ \E i \in 1..Len(users') :
                       /\ users'[i].email = request'.email
                       /\ session'[s] = users'[i].id
       /\ (Submitted("register") /\ Succeeded(response')) =>
             session'[s] = users'[Len(users')].id

\* C3: the identity of a client changes only by a successful register, a
\* successful login (to the user registered or logged in) or a logout (to
\* Anonymous), and never by another client's request; a login succeeds
\* exactly when a row has the email and the password verifies against its
\* hash, and a failed login leaves the identity as it was.
C3_IdentityFollowsAuthentication == [][C3_Step]_vars

\* a login with a wrong password has failed for a client that is logged in
C3_Witness ==
    /\ request.route = "login"
    /\ response = Response("render:login.html", "incorrect password")
    /\ session[request.sid] # Anonymous
    /\ EmailTaken(request.email)

----------------------------------------------------------------------------
(* C4 *)

\* C4: a comment submitted by an anonymous client, to any post id, stores
\* nothing and is answered Unauthenticated (redirect to login).
C4_AnonymousCommentRejected ==
    [][(Submitted("show_post") /\ session[request'.sid] = Anonymous)
          => (comments' = comments /\ Unauthenticated(response'))]_vars

\* an anonymous comment on a post id that does not resolve was turned away
\* while another client's comment is stored
C4_Witness ==
    /\ request.route = "show_post" /\ request.valid
    /\ session[request.sid] = Anonymous
    /\ Unauthenticated(response)
    /\ ~PostExists(request.post_id)
    /\ Len(comments) = 1

----------------------------------------------------------------------------
(* C5 *)

\* C5: every stored comment has an existing user as author and an existing
\* post as parent.
C5_CommentsReferToUserAndPost ==
    \A i \in 1..Len(comments) :
        /\ UserExists(comments[i].comment_author_id)
        /\ PostExists(comments[i].parent_post_id)

----------------------------------------------------------------------------
(* C6 *)

C6_Step ==
    (request'.route = "delete_post" /\ IsAdminIdentity(request'.sid)) =>
        IF PostExists(request'.post_id)
        THEN /\ Len(posts') = Len(posts) - 1
             /\ ~\E i \in 1..Len(posts') : posts'[i].id = request'.post_id
             /\ \A i \in 1..Len(posts) :
                    posts[i].id # request'.post_id =>
                        \E j \in 1..Len(posts') : posts'[j] = posts[i]
        ELSE NotFound(response') /\ posts' = posts

\* C6: delete_post by the admin removes exactly the post of an existing id,
\* and answers NotFound, with the posts as they were, for an id that does not
\* resolve.
C6_DeleteExactlyOrNotFound == [][C6_Step]_vars

----------------------------------------------------------------------------
(* C7 *)

C7_Step ==
    (request'.route = "edit_post" /\ IsAdminIdentity(request'.sid)) =>
        IF ~PostExists(request'.post_id)
        THEN NotFound(response') /\ UNCHANGED <<users, posts, comments>>
        ELSE IF request'.method = "POST" /\ request'.valid
        THEN LET k == CHOOSE i \in 1..Len(posts) : posts[i].id = request'.post_id
             IN /\ Len(posts') = Len(posts)
                /\ \A i \in 1..Len(posts) : i # k => posts'[i] = posts[i]
                /\ posts'[k].title = request'.title
                /\ posts'[k].subtitle = request'.subtitle
                /\ posts'[k].img_url = request'.img_url
                /\ posts'[k].body = request'.body
                /\ posts'[k].id = posts[k].id
                /\ posts'[k].date = posts[k].date
        ELSE /\ request'.method = "GET" =>
                    response'.status = "render:make-post.html"
             /\ UNCHANGED <<users, posts, comments>>

\* C7: update_post by the admin on an existing id: a valid submission
\* replaces the post's title, subtitle, image URL and body and keeps its id
\* and date and every other post; a GET renders the form and changes nothing;
\* an id that does not resolve is answered NotFound with nothing changed.
C7_EditReplacesFields == [][C7_Step]_vars

----------------------------------------------------------------------------
(* C8 *)

NoSharedTitle(rows) ==
    \A i, j \in 1..Len(rows) : i # j => rows[i].title # rows[j].title

C8_Step ==
    /\ NoSharedTitle(posts')
    /\ (Submitted("add_new_post") /\ IsAdminIdentity(request'.sid)) =>
          IF TitleTaken(request'.title)
          THEN /\ DuplicateTitle(response')
               /\ posts' = posts
          ELSE /\ Succeeded(response')
               /\ Len(posts') = Len(posts) + 1
               /\ SubSeq(posts', 1, Len(posts)) = posts
               /\ posts'[Len(posts')].title = request'.title
               /\ posts'[Len(posts')].author_id = 1

\* C8: create_post by the admin with a title no post has adds exactly one
\* post, with that title and the admin as author; with a title some post has
\* it fails on the unique constraint (DuplicateTitle) and leaves the posts as
\* they were; whatever came before, and titles stay pairwise distinct.
C8_TitlesUnique == [][C8_Step]_vars

\* a create_post with a taken title has failed, the post count as it was
C8_Witness ==
    /\ request.route = "add_new_post"
    /\ DuplicateTitle(response)
    /\ TitleTaken(request.title)
    /\ Len(posts) = 1

----------------------------------------------------------------------------
(* C9 *)

\* every row has all of its columns, from the values the forms submit
WholeRows ==
    /\ \A i \in 1..Len(users) :
          /\ DOMAIN users[i] = {"id", "email", "password", "name"}
          /\ users[i].id >= 1
          /\ users[i].email \in Emails
          /\ users[i].name \in Names
          /\ \E p \in Passwords, salt \in Salts :
                 users[i].password = generate_password_hash(p, salt)
    /\ \A i \in 1..Len(posts) :
          /\ DOMAIN posts[i] = {"id", "author_id", "title", "subtitle",
                                "date", "body", "img_url"}
          /\ posts[i].id >= 1
          /\ UserExists(posts[i].author_id)
          /\ posts[i].title \in Titles
          /\ posts[i].subtitle \in Subtitles
          /\ posts[i].date \in Dates
          /\ posts[i].body \in Bodies
          /\ posts[i].img_url \in ImgUrls
    /\ \A i \in 1..Len(comments) :
          /\ DOMAIN comments[i] = {"id", "text", "comment_author_id",
                                   "parent_post_id"}
          /\ comments[i].id >= 1
          /\ comments[i].text \in Texts
          /\ UserExists(comments[i].comment_author_id)

\* the step's change of the tables is the whole of transaction txn
WholeCommit(txn) ==
    CASE txn.kind = "insert_user" ->
           /\ Len(users') = Len(users) + 1
           /\ SubSeq(users', 1, Len(users)) = users
           /\ users'[Len(users')].email = txn.row.email
           /\ users'[Len(users')].password = txn.row.password
           /\ users'[Len(users')].name = txn.row.name
           /\ UNCHANGED <<posts, comments>>
      [] txn.kind = "insert_post" ->
           /\ Len(posts') = Len(posts) + 1
           /\ SubSeq(posts', 1, Len(posts)) = posts
           /\ \A f \in DOMAIN txn.row : posts'[Len(posts')][f] = txn.row[f]
           /\ UNCHANGED <<users, comments>>
      [] txn.kind = "insert_comment" ->
           /\ Len(comments') = Len(comments) + 1
           /\ SubSeq(comments', 1, Len(comments)) = comments
           /\ \A f \in DOMAIN txn.row : comments'[Len(comments')][f] = txn.row[f]
           /\ UNCHANGED <<users, posts>>
      [] txn.kind = "delete_post" ->
           /\ Len(posts') = Len(posts) - 1
           /\ ~\E i \in 1..Len(posts') : posts'[i].id = txn.post_id
           /\ \A i \in 1..Len(posts) :
                  posts[i].id # txn.post_id =>
                      \E j \in 1..Len(posts') : posts'[j] = posts[i]
           /\ Len(comments') = Len(comments)
           /\ \A i \in 1..Len(comments) :
                  IF comments[i].parent_post_id = txn.post_id
                  THEN comments'[i] = [comments[i] EXCEPT !.parent_post_id = NULL]
                  ELSE comments'[i] = comments[i]
           /\ users' = users
      [] OTHER -> FALSE

C9_Step ==
    /\ NoSharedEmail(users')
    /\ WholeRows'
    /\ db' # db =>
          \E s \in Sessions :
              /\ inflight[s] # NoTransaction
              /\ inflight' = [inflight EXCEPT ![s] = NoTransaction]
              /\ WholeCommit(inflight[s])

\* C9: with requests interleaved at their commits, the tables change only by
\* the commit of one request, which applies the whole of its transaction
\* (or, rolled back, nothing); every row in the tables is complete; and no
\* two user rows share an email, also when two registers of the same fresh
\* email have both passed the email check before either commits.
C9_CommitsAtomic == [][C9_Step]_vars

\* a register that passed the email check is still to commit while another
\* register of the same email has committed
C9_Witness ==
    \E s \in Sessions :
        /\ inflight[s].kind = "insert_user"
        /\ EmailTaken(inflight[s].row.email)

----------------------------------------------------------------------------
(* C10 *)

C10_Step ==
    /\ users = <<>> => \A s \in Sessions : ~admin_only(s)
    /\ users # <<>> => (users' # <<>> /\ users'[1] = users[1])
    /\ users' # <<>> =>
          /\ users'[1].id = 1
          /\ \A i \in 2..Len(users') : users'[i].id # 1
    /\ \A s \in Sessions :
          admin_only(s)' => (users' # <<>> /\ session'[s] = users'[1].id)
    /\ (request'.route \in AdminRoutes /\ response'.status \notin {"403", "405"})
          => (users # <<>> /\ session[request'.sid] = users[1].id)

\* C10: from the empty database, the first user registered gets id 1 and no
\* other user does; that row never changes; the clients that pass the admin
\* check (and the requests the admin routes let through) are those of that
\* first user; none passes while there is no user.
C10_FirstUserIsTheAdmin == [][C10_Step]_vars

\* the second user registered was refused on an admin route
C10_Witness ==
    /\ Len(users) = 2
    /\ request.route \in AdminRoutes
    /\ session[request.sid] = users[2].id
    /\ Forbidden(response)

====
